---- MODULE Spec2Model ----
(***************************************************************************)
(* FeltMapComponent (src/src/components/FeltMapComponent.tsx): the embed   *)
(* session, the layer rebuild chain, the map-click handler and the sidebar *)
(* selection, as a state machine.                                          *)
(*                                                                         *)
(* Conventions.  A JavaScript value that may be null/undefined is a tuple  *)
(* of length at most one: << >> is null/undefined, <<v>> is the value v.   *)
(* Arrays are sequences; the code's 0-based index i is position i+1.       *)
(* Coordinates are integers counted in units of 0.00005 degrees, so the    *)
(* code's threshold 0.0001 is 2 units.                                     *)
(***************************************************************************)
EXTENDS Integers, Sequences, FiniteSets, TLC

\* ------------------------------------------------------------------ bounds
MaxPoints == 2
MaxHits == 1
MaxRebuilds == 2
MaxClicks == 1
MaxRows == 2
MaxStylePoints == 11

\* -------------------------------------------------------- program constants
Null == << >>
PROXIMITY_THRESHOLD == 2
FocusZoom == 12
\* padding = 0.1 degrees, in units of 0.00005 degrees
PADDING == 2000
DefaultRadius == 6
MinRadius == 4
MaxRadius == 12
COLOR_PALETTE == <<"#4c78a8", "#f58518", "#e45756", "#72b7b2", "#54a24b",
                   "#eeca3b", "#b279a2", "#ff9da6", "#9d755d", "#bab0ac">>

\* ------------------------------------------------------------- input sets
\* The host's rows, as point records: the first two 1 unit (0.00005
\* degrees) apart in latitude, the first one without a category.  The point
\* sets the host passes are the first k rows, k <= MaxPoints.
Rows == <<[latitude |-> 0, longitude |-> 0, color |-> << >>, size |-> << >>,
            label |-> << >>, extra |-> << >>],
          [latitude |-> 1, longitude |-> 0, color |-> <<"A">>, size |-> << >>,
            label |-> << >>, extra |-> << >>],
          [latitude |-> 2, longitude |-> 2, color |-> <<"B">>, size |-> <<1>>,
            label |-> << >>, extra |-> << >>]>>

PointSets == {SubSeq(Rows, 1, k) : k \in 0..MaxPoints}

\* Click coordinates: on a point, 1 unit off (inside the threshold) and
\* 2 units off (outside it), on either axis.
ClickCoordinates == {[latitude |-> 0, longitude |-> 0], [latitude |-> 1, longitude |-> 0],
                     [latitude |-> 2, longitude |-> 0], [latitude |-> 0, longitude |-> 2]}

\* Point sets for the feature builder, the style and the bounds: the first n
\* points of a sequence whose colors, sizes and tooltip fields follow one of
\* a few patterns (no color; all distinct; equal in pairs; every third
\* missing; an empty string first), spread over a few degrees.
ColorPatterns == {"none", "distinct", "pairs", "gaps", "blankFirst"}

SizePatterns == {"none", "equal", "some", "range"}

ExtraPatterns == {"none", "tooltip"}

StylePoint(k, cp, sp, ep) ==
    [latitude |-> (((k * 7) % 5) - 2) * 20000,
     longitude |-> (((k * 3) % 7) - 3) * 20000,
     label |-> IF k % 2 = 1 THEN << >> ELSE <<"L" \o ToString(k)>>,
     color |-> CASE cp = "none" -> << >>
                 [] cp = "distinct" -> <<"c" \o ToString(k)>>
                 [] cp = "pairs" -> <<"c" \o ToString((k + 1) \div 2)>>
                 [] cp = "gaps" -> IF k % 3 = 0 THEN << >> ELSE <<"c" \o ToString(k)>>
                 [] cp = "blankFirst" -> IF k = 1 THEN <<"">> ELSE <<"c" \o ToString(k % 3)>>,
     size |-> CASE sp = "none" -> << >>
                [] sp = "equal" -> <<5>>
                [] sp = "some" -> IF k % 2 = 0 THEN <<(k * 3) % 7>> ELSE << >>
                [] sp = "range" -> <<(k * 5) % 7>>,
     extra |-> IF ep = "tooltip" /\ k % 2 = 1
               THEN <<[key |-> "c1", value |-> "v" \o ToString(k)]>>
               ELSE << >>]

StylePointSets ==
    {[k \in 1..n |-> StylePoint(k, cp, sp, ep)] :
        n \in 1..MaxStylePoints, cp \in ColorPatterns, sp \in SizePatterns,
        ep \in ExtraPatterns}

MapIds == {"m1", "m2"}

\* columnLookup, from the ids of the tooltip columns to their display names
\* (<< >>: no entry): the default {} of line 50, an ordinary name, the empty
\* name, and names that are also property names of the features.
ColumnIds == {"c1"}

NoLookup == [c \in ColumnIds |-> << >>]

ColumnLookups == {NoLookup} \cup
    {[c \in ColumnIds |-> <<name>>] : name \in {"Region", "", "category", "size", "pointIndex"}}

SeqsUpTo(S, n) == UNION {[1..k -> S] : k \in 0..n}

\* Layers the remote map may hold before the widget touches it: a base layer
\* and a layer of somebody else whose name happens to contain "Data Points".
PreExisting == {[id |-> "base", marked |-> FALSE, n |-> 0],
                [id |-> "foreign", marked |-> TRUE, n |-> 0]}

\* ---------------------------------------------------------------- helpers
Abs(x) == IF x < 0 THEN -x ELSE x

Min(S) == CHOOSE x \in S : \A y \in S : x <= y

Range(s) == {s[k] : k \in 1..Len(s)}

RemoveAt(s, k) == [j \in 1..(Len(s) - 1) |-> IF j < k THEN s[j] ELSE s[j + 1]]

\* Truthiness of an optional string: undefined and "" are falsy.
Truthy(c) == c /= << >> /\ c /= <<"">>

\* points.findIndex(...) of the click handler's coordinate fallback: the
\* lowest 0-based index of a point within the threshold on both axes, or -1.
IsNear(point, coordinate) ==
    /\ Abs(point.latitude - coordinate.latitude) < PROXIMITY_THRESHOLD
    /\ Abs(point.longitude - coordinate.longitude) < PROXIMITY_THRESHOLD

\* findIndex taken for findLastIndex.
FindIndexLast(pts, coordinate) ==
    LET near == {k \in 1..Len(pts) : IsNear(pts[k], coordinate)}
    IN  IF near = {} THEN -1 ELSE (CHOOSE k \in near : \A j \in near : j <= k) - 1

FindIndex(pts, coordinate) ==
    LET near == {k \in 1..Len(pts) : IsNear(pts[k], coordinate)}
    IN  IF near = {} THEN -1 ELSE Min(near) - 1

\* uniqueCategories.length > 0 || (sizes differ): whether addPointsToMap
\* calls setLayerStyle.
UniqueCategories(pts) == {pts[k].color : k \in {j \in 1..Len(pts) : Truthy(pts[j].color)}}

Sizes(pts) == {pts[k].size[1] : k \in {j \in 1..Len(pts) : pts[j].size /= << >>}}

ShouldUpdateStyle(pts) ==
    \/ UniqueCategories(pts) /= {}
    \/ Cardinality(Sizes(pts)) > 1

\* The layer id the remote map gives to the layer of the n-th rebuild.
NewLayerId(n) == ToString(n)

\* ------------------------------- geojson features (lines 122-163)
\* A property value with its JavaScript type; numbers as numerals.
Num(n) == [type |-> "number", value |-> ToString(n)]

Str(t) == [type |-> "string", value |-> t]

\* properties[k] = v
Assign(f, k, v) == [x \in DOMAIN f \cup {k} |-> IF x = k THEN v ELSE f[x]]

\* columnLookup[key] || key
DisplayName(lookup, key) ==
    IF key \in DOMAIN lookup /\ Truthy(lookup[key]) THEN lookup[key][1] ELSE key

\* The properties object of the feature of points[index]: the three fixed
\* properties, category and size when given, then every other field of the
\* point in the order of Object.entries, each assigned under its display
\* name.
Properties(point, index, lookup) ==
    LET base == [name |-> Str(IF Truthy(point.label) THEN point.label[1]
                               ELSE "Point " \o ToString(index + 1)),
                 pointId |-> Str("sigma-point-" \o ToString(index)),
                 pointIndex |-> Num(index)]
        withCategory == IF Truthy(point.color)
                        THEN Assign(base, "category", Str(point.color[1]))
                        ELSE base
        withSize == IF point.size /= << >>
                    THEN Assign(withCategory, "size", Num(point.size[1]))
                    ELSE withCategory
        RECURSIVE Copy(_, _)
        Copy(f, j) == IF j > Len(point.extra) THEN f
                      ELSE Copy(Assign(f, DisplayName(lookup, point.extra[j].key),
                                       Str(point.extra[j].value)), j + 1)
    IN  Copy(withSize, 1)

Feature(point, index, lookup) ==
    [geometry |-> <<point.longitude, point.latitude>>,
     properties |-> Properties(point, index, lookup)]

GeoJson(pts, lookup) == [k \in 1..Len(pts) |-> Feature(pts[k], k - 1, lookup)]

\* The geometryStyles default the layer is created with.
CreateStyle == [color |-> COLOR_PALETTE[1], size |-> DefaultRadius]

\* --------------------------------------- layer style (lines 196-244)
\* Array.from(new Set(points.map(p => p.color).filter(Boolean))): the truthy
\* colors in the order of their first appearance.
UniqueCategoryList(pts) ==
    LET RECURSIVE Go(_, _)
        Go(k, acc) == IF k > Len(pts) THEN acc
                      ELSE IF Truthy(pts[k].color) /\ pts[k].color[1] \notin Range(acc)
                      THEN Go(k + 1, Append(acc, pts[k].color[1]))
                      ELSE Go(k + 1, acc)
    IN  Go(1, << >>)

\* The match expression with the palette index counted from 1.
ColorExpressionFromOne(pts) ==
    LET uniqueCategories == UniqueCategoryList(pts)
    IN  IF Len(uniqueCategories) > 0
        THEN <<[cases |-> [i \in 1..Len(uniqueCategories) |->
                    [category |-> uniqueCategories[i],
                     color |-> COLOR_PALETTE[(i % Len(COLOR_PALETTE)) + 1]]],
                default |-> COLOR_PALETTE[1]]>>
        ELSE << >>

\* The "match" expression on the category property, or none.
ColorExpression(pts) ==
    LET uniqueCategories == UniqueCategoryList(pts)
    IN  IF Len(uniqueCategories) > 0
        THEN <<[cases |-> [i \in 1..Len(uniqueCategories) |->
                    [category |-> uniqueCategories[i],
                     color |-> COLOR_PALETTE[((i - 1) % Len(COLOR_PALETTE)) + 1]]],
                default |-> COLOR_PALETTE[1]]>>
        ELSE << >>

Max(S) == CHOOSE x \in S : \A y \in S : y <= x

\* The interpolation with its two radii exchanged.
SizeExpressionSwapped(pts) ==
    LET sizes == Sizes(pts)
    IN  IF sizes /= {} /\ Min(sizes) /= Max(sizes)
        THEN <<[stops |-> <<Min(sizes), MaxRadius, Max(sizes), MinRadius>>]>>
        ELSE << >>

\* The linear "interpolate" expression on the size property, or none.
SizeExpression(pts) ==
    LET sizes == Sizes(pts)
    IN  IF sizes /= {} /\ Min(sizes) /= Max(sizes)
        THEN <<[stops |-> <<Min(sizes), MinRadius, Max(sizes), MaxRadius>>]>>
        ELSE << >>

\* The style passed to setLayerStyle.
LayerStyle(pts) == [color |-> ColorExpression(pts), size |-> SizeExpression(pts)]

\* ----------------------------------- calculateBounds (lines 494-514)
Min2(a, b) == IF a <= b THEN a ELSE b

Max2(a, b) == IF a >= b THEN a ELSE b

\* calculateBounds returning the box of the first point only.
CalculateBoundsFirstOnly(pts) ==
    IF Len(pts) = 0
    THEN Null
    ELSE <<<<pts[1].longitude - PADDING, pts[1].latitude - PADDING,
             pts[1].longitude + PADDING, pts[1].latitude + PADDING>>>>

CalculateBounds(pts) ==
    IF Len(pts) = 0
    THEN Null
    ELSE LET RECURSIVE ForEach(_, _)
             ForEach(k, b) ==
                 IF k > Len(pts) THEN b
                 ELSE ForEach(k + 1,
                        [minLng |-> Min2(b.minLng, pts[k].longitude),
                         minLat |-> Min2(b.minLat, pts[k].latitude),
                         maxLng |-> Max2(b.maxLng, pts[k].longitude),
                         maxLat |-> Max2(b.maxLat, pts[k].latitude)])
             b == ForEach(1, [minLng |-> pts[1].longitude, minLat |-> pts[1].latitude,
                              maxLng |-> pts[1].longitude, maxLat |-> pts[1].latitude])
         IN  <<<<b.minLng - PADDING, b.minLat - PADDING,
                 b.maxLng + PADDING, b.maxLat + PADDING>>>>

\* ------------------------------------------ App: mapPoints (App.tsx 87-157)
\* A cell of a host column: a JavaScript value with its typeof.  Numbers are
\* written as numerals so that NaN and the infinities are values like the
\* others.
Cells == {[type |-> "number", value |-> "0"], [type |-> "number", value |-> "1"],
          [type |-> "number", value |-> "NaN"], [type |-> "number", value |-> "Infinity"],
          [type |-> "number", value |-> "-Infinity"], [type |-> "string", value |-> "1"],
          [type |-> "undefined", value |-> ""], [type |-> "object", value |-> "null"]}

\* typeof x !== "number" || isNaN(x), for a value that reached the test.
IsInvalidCoordinate(x) == x.type /= "number" \/ x.value = "NaN"

\* Array.prototype.filter(point => point !== null) on a sequence of options.
FilterNotNull(s) ==
    LET RECURSIVE Go(_)
        Go(k) == IF k > Len(s) THEN << >> ELSE s[k] \o Go(k + 1)
    IN  Go(1)

\* The mapPoints memo, with the latitude and longitude columns configured
\* and no label, size, color or tooltip column: one record or null per row
\* of the latitude column, then the nulls filtered out.
MapPoints(data) ==
    IF data = Null
    THEN << >>
    ELSE LET latData == data[1].lat
             lngData == data[1].lng
         IN  FilterNotNull([rowIndex \in 1..Len(latData) |->
                IF \/ IsInvalidCoordinate(latData[rowIndex])
                   \/ IsInvalidCoordinate(lngData[rowIndex])
                THEN << >>
                ELSE <<[latitude |-> latData[rowIndex], longitude |-> lngData[rowIndex]]>>])

\* ------------------------------------------------------------------ state
VARIABLES
    mapId,              \* prop
    points,             \* prop
    onPointSelected,    \* prop: TRUE iff the host passed the callback
    onClearSelection,   \* prop: TRUE iff the host passed the callback
    felt,               \* useState: << >> or <<mapId of the controller>>
    isLoading,          \* useState
    hasLoadedRef,       \* useRef
    selectedPoint,      \* useState: << >> or <<index>>
    customLayerIdRef,   \* useRef: << >> or <<layer id>>
    embedPending,       \* the Felt.embed promise is not settled yet
    embeds,             \* the mapIds Felt.embed was called with, in order
    layers,             \* the layers of the remote map
    nRebuilds,          \* rebuild chains started so far
    rebuilds,           \* rebuild chains in flight
    clicks,             \* map-click handler invocations suspended at an await
    last,               \* the handler that ran in the last step, with its inputs
    notified,           \* host callbacks invoked by the last step, in order
    issued,             \* remote calls issued by the last step, in order
    unhandled,          \* rejected calls of the last step that nothing catches
    columnLookup,       \* prop: column id -> << >> or <<display name>>
    handlers,           \* click handlers registered on the controller
    unmounted,          \* the component has been unmounted
    swatches,           \* the rendered sidebar: per row, << >> or <<swatch color>>
    sigmaData,          \* App: the table of the host, << >> before it arrives
    mapPoints           \* App: the value of the mapPoints memo

vars == <<mapId, points, onPointSelected, onClearSelection, felt, isLoading,
          hasLoadedRef, selectedPoint, customLayerIdRef, embedPending, embeds,
          layers, nRebuilds, rebuilds, clicks, last, notified, issued,
          unhandled, columnLookup, handlers, unmounted, swatches, sigmaData,
          mapPoints>>

props == <<mapId, points, onPointSelected, onClearSelection, columnLookup>>
appVars == <<sigmaData, mapPoints>>
embedVars == <<felt, isLoading, hasLoadedRef, embedPending, embeds>>
remoteVars == <<layers, nRebuilds, rebuilds, customLayerIdRef>>

NoClick == [features |-> << >>, coordinate |-> << >>, points |-> << >>,
            selectedPoint |-> << >>, at |-> 0]

\* The record of a handler call: the handler, its argument, the selection it
\* found, the map click it finished and, for a sidebar click that directly
\* follows a sidebar click, that earlier click.
Event(op, idx, click) ==
    [op |-> op, idx |-> idx, pre |-> selectedPoint, click |-> click,
     prev |-> IF op = "sidebarClick" /\ last.op = "sidebarClick"
              THEN <<[idx |-> last.idx, pre |-> last.pre]>>
              ELSE << >>]

\* A step of the host or of a promise chain that is not a handler call.
Other == [op |-> "other", idx |-> << >>, pre |-> << >>, click |-> NoClick, prev |-> << >>]

Call(name, rb, arg) == [call |-> name, rb |-> rb, arg |-> arg]

ClearNotice == IF onClearSelection THEN <<[cb |-> "onClearSelection", arg |-> << >>]>> ELSE << >>

SelectNotice(point) == IF onPointSelected THEN <<[cb |-> "onPointSelected", arg |-> <<point>>]>> ELSE << >>

\* The component as constructed, before its first commit, and the App
\* before the host's data has arrived.
Constructed ==
    /\ felt = Null
    /\ isLoading = TRUE
    /\ hasLoadedRef = FALSE
    /\ selectedPoint = Null
    /\ customLayerIdRef = Null
    /\ embedPending = FALSE
    /\ embeds = << >>
    /\ nRebuilds = 0
    /\ rebuilds = << >>
    /\ clicks = << >>
    /\ last = Other
    /\ notified = << >>
    /\ issued = << >>
    /\ unhandled = << >>
    /\ handlers = << >>
    /\ unmounted = FALSE
    /\ swatches = << >>
    /\ sigmaData = Null
    /\ mapPoints = MapPoints(sigmaData)

Init ==
    /\ mapId \in MapIds
    /\ points \in PointSets
    /\ onPointSelected \in BOOLEAN
    /\ onClearSelection \in BOOLEAN
    /\ columnLookup \in ColumnLookups
    /\ layers \in SUBSET PreExisting
    /\ Constructed

\* ------------------------------------------- sidebar (lines 62-71, 533-553)
\* Array.from(new Set(points.map(p => p.color).filter(c => c !== undefined))):
\* the colors that are not undefined, in the order of their first appearance.
UniqueValues(pts) ==
    LET RECURSIVE Go(_, _)
        Go(k, acc) == IF k > Len(pts) THEN acc
                      ELSE IF pts[k].color /= << >> /\ pts[k].color[1] \notin Range(acc)
                      THEN Go(k + 1, Append(acc, pts[k].color[1]))
                      ELSE Go(k + 1, acc)
    IN  Go(1, << >>)

\* uniqueValues.indexOf(category), 0-based, -1 when absent.
IndexOf(list, x) ==
    LET at == {i \in 1..Len(list) : list[i] = x}
    IN  IF at = {} THEN -1 ELSE Min(at) - 1

GetCategoryColor(pts, category) ==
    IF ~Truthy(category)
    THEN COLOR_PALETTE[1]
    ELSE LET categoryIndex == IndexOf(UniqueValues(pts), category[1])
         IN  IF categoryIndex = -1 THEN COLOR_PALETTE[1]
             ELSE COLOR_PALETTE[(categoryIndex % Len(COLOR_PALETTE)) + 1]

\* The swatches of the rendered rows: a row has one iff its color is truthy.
Swatches(pts) ==
    [k \in 1..Len(pts) |-> IF Truthy(pts[k].color)
                           THEN <<GetCategoryColor(pts, pts[k].color)>>
                           ELSE << >>]

\* ------------------------------------ click handler effect (lines 284-443)
\* The effect with deps [felt, points, selectedPoint, onPointSelected,
\* onClearSelection], run at the end of a step that commits a render: the
\* cleanup of its previous run, if that run returned one (it did iff felt
\* was set), then the run itself, which registers a handler closing over
\* the new points and selectedPoint when felt is set.
\* The effect returning no cleanup function.
ReleasedNever(hs, controller) == hs

\* The cleanup: unsubscribe() of the registration the previous run made.
Released(hs, controller) ==
    IF controller /= Null /\ hs /= << >> THEN SubSeq(hs, 1, Len(hs) - 1) ELSE hs

ClickEffect ==
    handlers' = IF felt' /= Null
                THEN Append(Released(handlers, felt),
                            [points |-> points', selectedPoint |-> selectedPoint'])
                ELSE Released(handlers, felt)

\* What a step of the mounted component leaves alone besides its own state.
Committed ==
    /\ UNCHANGED <<appVars, unmounted>>
    /\ ClickEffect
    /\ swatches' = Swatches(points')

\* ------------------------------------------------- effects (lines 74-281)
\* loadFelt: the early return on hasLoadedRef, else Felt.embed is called.
LoadFelt(target) ==
    IF hasLoadedRef
    THEN UNCHANGED <<hasLoadedRef, isLoading, embedPending, embeds>>
    ELSE /\ hasLoadedRef' = TRUE
         /\ isLoading' = TRUE
         /\ embedPending' = TRUE
         /\ embeds' = Append(embeds, target)

\* The body of the points effect: with a controller and a non-empty point
\* set it calls felt.getLayers() and so starts a rebuild chain.
\* The guard without its points.length test.
StartsRebuildAnyPoints(controller, pts) == controller /= Null

StartsRebuild(controller, pts) == controller /= Null /\ Len(pts) > 0

PointsEffect(controller, pts) ==
    IF StartsRebuild(controller, pts)
    THEN /\ nRebuilds' = nRebuilds + 1
         /\ rebuilds' = Append(rebuilds,
                [n |-> nRebuilds + 1, points |-> pts, pc |-> "getLayers",
                 targets |-> {}, pending |-> {}, log |-> <<"getLayers">>])
         /\ issued' = <<Call("getLayers", nRebuilds + 1, << >>)>>
    ELSE /\ UNCHANGED <<nRebuilds, rebuilds>>
         /\ issued' = << >>

\* First commit of the component: both effects run; felt is still null.
Mount ==
    /\ ~hasLoadedRef
    /\ LoadFelt(mapId)
    /\ PointsEffect(felt, points)
    /\ last' = Other
    /\ notified' = << >>
    /\ unhandled' = << >>
    /\ UNCHANGED <<props, felt, selectedPoint, customLayerIdRef, layers, clicks>>
    /\ Committed

\* Felt.embed resolves: setFelt, setIsLoading(false); the points effect
\* re-runs because felt changed.
EmbedResolve ==
    /\ embedPending
    /\ embedPending' = FALSE
    /\ felt' = <<embeds[Len(embeds)]>>
    /\ isLoading' = FALSE
    /\ StartsRebuild(felt', points) => nRebuilds < MaxRebuilds
    /\ PointsEffect(felt', points)
    /\ last' = Other
    /\ notified' = << >>
    /\ unhandled' = << >>
    /\ UNCHANGED <<props, hasLoadedRef, embeds, selectedPoint, customLayerIdRef,
                   layers, clicks>>
    /\ Committed

\* Felt.embed rejects: the catch block only clears the loading flag.
EmbedReject ==
    /\ embedPending
    /\ embedPending' = FALSE
    /\ isLoading' = FALSE
    /\ last' = Other
    /\ notified' = << >>
    /\ issued' = << >>
    /\ unhandled' = << >>
    /\ UNCHANGED <<props, felt, hasLoadedRef, embeds, selectedPoint, remoteVars,
                   clicks>>
    /\ Committed

\* The host passes another mapId: the embed effect re-runs (deps [mapId,
\* showLegend]); the points effect does not depend on mapId.
ChangeMapId(m) ==
    /\ hasLoadedRef
    /\ m /= mapId
    /\ mapId' = m
    /\ LoadFelt(m)
    /\ last' = Event("changeMapId", << >>, NoClick)
    /\ notified' = << >>
    /\ issued' = << >>
    /\ unhandled' = << >>
    /\ UNCHANGED <<points, onPointSelected, onClearSelection, columnLookup, felt,
                   selectedPoint, remoteVars, clicks>>
    /\ Committed

\* The host passes another title, columnLookup or showLegend: the points
\* effect re-runs with the same points (showLegend also re-runs loadFelt).
ChangeDisplayProps ==
    /\ hasLoadedRef
    /\ StartsRebuild(felt, points) => nRebuilds < MaxRebuilds
    /\ LoadFelt(mapId)
    /\ PointsEffect(felt, points)
    /\ last' = Other
    /\ notified' = << >>
    /\ unhandled' = << >>
    /\ UNCHANGED <<props, felt, selectedPoint, customLayerIdRef, layers, clicks>>
    /\ Committed

\* The host passes another points array: the points effect re-runs.
ReplacePoints(pts) ==
    /\ hasLoadedRef
    /\ StartsRebuild(felt, pts) => nRebuilds < MaxRebuilds
    /\ points' = pts
    /\ PointsEffect(felt, pts)
    /\ last' = Other
    /\ notified' = << >>
    /\ unhandled' = << >>
    /\ UNCHANGED <<mapId, onPointSelected, onClearSelection, columnLookup, embedVars,
                   selectedPoint, customLayerIdRef, layers, clicks>>
    /\ Committed

\* ------------------------------------------------ sidebar (lines 446-491)
\* handlePointClick(index) for a rendered row.
\* handlePointClick without the toggle-off branch.
HandlePointClickNoToggle(index) ==
    IF felt = Null
    THEN /\ UNCHANGED selectedPoint
         /\ notified' = << >>
         /\ issued' = << >>
    ELSE /\ selectedPoint' = <<index>>
         /\ notified' = SelectNotice(points[index + 1])
         /\ issued' = <<Call("setViewport", 0,
                <<points[index + 1].latitude, points[index + 1].longitude, FocusZoom>>)>>

\* handlePointClick whose toggle-off branch lacks its return and goes on to
\* setViewport.
HandlePointClickFocusOnDeselect(index) ==
    IF felt = Null
    THEN /\ UNCHANGED selectedPoint
         /\ notified' = << >>
         /\ issued' = << >>
    ELSE /\ selectedPoint' = IF selectedPoint = <<index>> THEN Null ELSE <<index>>
         /\ notified' = IF selectedPoint = <<index>> THEN ClearNotice
                         ELSE SelectNotice(points[index + 1])
         /\ issued' = <<Call("setViewport", 0,
                <<points[index + 1].latitude, points[index + 1].longitude, FocusZoom>>)>>

\* handlePointClick without the !felt guard.
HandlePointClickUnguarded(index) ==
    IF selectedPoint = <<index>>
    THEN /\ selectedPoint' = Null
         /\ notified' = ClearNotice
         /\ issued' = << >>
    ELSE /\ selectedPoint' = <<index>>
         /\ notified' = SelectNotice(points[index + 1])
         /\ issued' = << >>

HandlePointClick(index) ==
    IF felt = Null
    THEN /\ UNCHANGED selectedPoint
         /\ notified' = << >>
         /\ issued' = << >>
    ELSE IF selectedPoint = <<index>>
    THEN /\ selectedPoint' = Null
         /\ notified' = ClearNotice
         /\ issued' = << >>
    ELSE /\ selectedPoint' = <<index>>
         /\ notified' = SelectNotice(points[index + 1])
         /\ issued' = <<Call("setViewport", 0,
                <<points[index + 1].latitude, points[index + 1].longitude, FocusZoom>>)>>

SidebarClick(index) ==
    /\ hasLoadedRef
    /\ index \in 0..(Len(points) - 1)
    /\ HandlePointClick(index)
    /\ last' = Event("sidebarClick", <<index>>, NoClick)
    /\ unhandled' = << >>
    /\ UNCHANGED <<props, embedVars, remoteVars, clicks>>
    /\ Committed

\* handleClearSelection; the button exists only while something is selected.
HandleClearSelection ==
    /\ selectedPoint' = Null
    /\ notified' = ClearNotice

ClearSelection ==
    /\ hasLoadedRef
    /\ selectedPoint /= Null
    /\ HandleClearSelection
    /\ issued' = << >>
    /\ last' = Event("clearSelection", << >>, NoClick)
    /\ unhandled' = << >>
    /\ UNCHANGED <<props, embedVars, remoteVars, clicks>>
    /\ Committed

\* The setViewport call issued by the step before rejects: handlePointClick
\* awaits it outside any try block and its caller drops the promise.
SetViewportReject ==
    /\ \E j \in 1..Len(issued) : issued[j].call = "setViewport"
    /\ unhandled' = <<"setViewport">>
    /\ last' = Other
    /\ notified' = << >>
    /\ issued' = << >>
    /\ UNCHANGED <<props, embedVars, selectedPoint, remoteVars, clicks>>
    /\ Committed

\* The host removes the component: the cleanup of the click handler effect
\* runs; the state of the component is no longer used.
Unmount ==
    /\ hasLoadedRef
    /\ ~unmounted
    /\ unmounted' = TRUE
    /\ handlers' = Released(handlers, felt)
    /\ swatches' = << >>
    /\ last' = Other
    /\ notified' = << >>
    /\ issued' = << >>
    /\ unhandled' = << >>
    /\ UNCHANGED <<props, embedVars, selectedPoint, remoteVars, clicks, appVars>>

\* ------------------------------------------------ App (App.tsx 48-189)
componentVars == <<props, embedVars, selectedPoint, remoteVars, clicks, last,
                   notified, issued, unhandled, handlers, unmounted, swatches>>

\* The host delivers the table with one more row: the memo is recomputed.
SigmaAppendRow(lat, lng) ==
    /\ IF sigmaData = Null THEN TRUE ELSE Len(sigmaData[1].lat) < MaxRows
    /\ sigmaData' = IF sigmaData = Null
                    THEN <<[lat |-> <<lat>>, lng |-> <<lng>>]>>
                    ELSE <<[lat |-> Append(sigmaData[1].lat, lat),
                            lng |-> Append(sigmaData[1].lng, lng)]>>
    /\ mapPoints' = MapPoints(sigmaData')
    /\ UNCHANGED componentVars

\* The host withdraws the table (another source element is being loaded).
SigmaReset ==
    /\ sigmaData /= Null
    /\ sigmaData' = Null
    /\ mapPoints' = MapPoints(sigmaData')
    /\ UNCHANGED componentVars

\* ------------------------------------------ rebuild chain (lines 111-280)
SetToSeq(S) ==
    LET RECURSIVE Build(_)
        Build(T) == IF T = {} THEN << >>
                    ELSE LET x == CHOOSE y \in T : TRUE IN <<x>> \o Build(T \ {x})
    IN  Build(S)

\* layers.filter(layer => layer.name.includes("Data Points"))
OurLayers(ls) == {l.id : l \in {x \in ls : x.marked}}

\* The createLayersFromGeoJson call of a chain: the features of the points it
\* closed over and the default style.
CreateCall(r) ==
    Call("createLayersFromGeoJson", r.n,
         <<[features |-> GeoJson(r.points, columnLookup), style |-> CreateStyle]>>)

\* The fitViewportToBounds call of a chain (pointBounds is not null: the
\* chain's points are not empty).
FitCall(r) ==
    Call("fitViewportToBounds", r.n, <<[bounds |-> CalculateBounds(r.points)[1]]>>)

\* addPointsToMap up to its first await: the guard of line 112 holds for
\* the captured felt and points, so createLayersFromGeoJson is called.
AddPointsToMap(r) ==
    [r EXCEPT !.pc = "create", !.log = Append(@, "createLayersFromGeoJson")]

\* The .then of getLayers calling addPointsToMap without waiting for
\* Promise.all.
AfterGetLayersEager(r, ours) ==
    [r EXCEPT !.pc = "create", !.targets = ours, !.pending = ours,
              !.log = @ \o [j \in 1..Cardinality(ours) |-> "deleteLayer"]
                        \o <<"createLayersFromGeoJson">>]

\* What the .then of getLayers does with the layer list: deleteLayer for
\* each of our layers, and addPointsToMap once all of them have resolved
\* (at once when there is none).
AfterGetLayers(r, ours) ==
    IF ours = {}
    THEN AddPointsToMap(r)
    ELSE [r EXCEPT !.pc = "deleting", !.targets = ours, !.pending = ours,
                   !.log = @ \o [j \in 1..Cardinality(ours) |-> "deleteLayer"]]

CallsAfterGetLayers(r, ours) ==
    IF ours = {}
    THEN <<CreateCall(r)>>
    ELSE [j \in 1..Cardinality(ours) |-> Call("deleteLayer", r.n, <<[id |-> SetToSeq(ours)[j]]>>)]

RebuildStep(k) ==
    /\ last' = Other
    /\ notified' = << >>
    /\ UNCHANGED <<props, embedVars, selectedPoint, nRebuilds, clicks>>
    /\ Committed

GetLayersResolve(k) ==
    /\ k \in 1..Len(rebuilds)
    /\ rebuilds[k].pc = "getLayers"
    /\ rebuilds' = [rebuilds EXCEPT ![k] = AfterGetLayers(@, OurLayers(layers))]
    /\ issued' = CallsAfterGetLayers(rebuilds[k], OurLayers(layers))
    /\ unhandled' = << >>
    /\ RebuildStep(k)
    /\ UNCHANGED <<layers, customLayerIdRef>>

\* getLayers rejects: the chain has no catch, so the rejection is unhandled;
\* nothing else runs.
GetLayersReject(k) ==
    /\ k \in 1..Len(rebuilds)
    /\ rebuilds[k].pc = "getLayers"
    /\ rebuilds' = RemoveAt(rebuilds, k)
    /\ issued' = << >>
    /\ unhandled' = <<"getLayers">>
    /\ RebuildStep(k)
    /\ UNCHANGED <<layers, customLayerIdRef>>

\* A chain whose remaining promises are all settled is dropped.
Settle(rs, k, r) ==
    IF r.pc = "dead" /\ r.pending = {}
    THEN RemoveAt(rs, k)
    ELSE [rs EXCEPT ![k] = r]

\* One deleteLayer resolves; the last one lets Promise.all resolve.
AfterDelete(r, id) ==
    LET left == r.pending \ {id}
    IN  IF r.pc = "deleting" /\ left = {}
        THEN [AddPointsToMap(r) EXCEPT !.pending = left]
        ELSE [r EXCEPT !.pending = left]

DeleteLayerResolve(k, id) ==
    /\ k \in 1..Len(rebuilds)
    /\ id \in rebuilds[k].pending
    /\ layers' = {l \in layers : l.id /= id}
    /\ rebuilds' = Settle(rebuilds, k, AfterDelete(rebuilds[k], id))
    /\ issued' = IF AfterDelete(rebuilds[k], id).pc = "create" /\ rebuilds[k].pc = "deleting"
                 THEN <<CreateCall(rebuilds[k])>>
                 ELSE << >>
    /\ unhandled' = << >>
    /\ RebuildStep(k)
    /\ UNCHANGED customLayerIdRef

\* One deleteLayer rejects: Promise.all rejects on the first rejection and
\* its .then has no rejection handler; addPointsToMap never runs.
DeleteLayerReject(k, id) ==
    /\ k \in 1..Len(rebuilds)
    /\ id \in rebuilds[k].pending
    /\ rebuilds' = Settle(rebuilds, k,
            [rebuilds[k] EXCEPT !.pc = "dead", !.pending = @ \ {id}])
    /\ issued' = << >>
    /\ unhandled' = IF rebuilds[k].pc = "deleting" THEN <<"deleteLayer">> ELSE << >>
    /\ RebuildStep(k)
    /\ UNCHANGED <<layers, customLayerIdRef>>

\* createLayersFromGeoJson resolves with the new layer: its id is stored,
\* then setLayerStyle (dynamic style) or fitViewportToBounds is called.
AfterCreate(r) ==
    IF ShouldUpdateStyle(r.points)
    THEN [r EXCEPT !.pc = "style", !.log = Append(@, "setLayerStyle")]
    ELSE [r EXCEPT !.pc = "fit", !.log = Append(@, "fitViewportToBounds")]

CreateResolve(k) ==
    /\ k \in 1..Len(rebuilds)
    /\ rebuilds[k].pc = "create"
    /\ layers' = layers \cup {[id |-> NewLayerId(rebuilds[k].n), marked |-> TRUE,
                               n |-> Len(rebuilds[k].points)]}
    /\ customLayerIdRef' = <<NewLayerId(rebuilds[k].n)>>
    /\ rebuilds' = [rebuilds EXCEPT ![k] = AfterCreate(@)]
    /\ issued' = IF ShouldUpdateStyle(rebuilds[k].points)
                 THEN <<Call("setLayerStyle", rebuilds[k].n,
                               <<[id |-> NewLayerId(rebuilds[k].n),
                                  style |-> LayerStyle(rebuilds[k].points)]>>)>>
                 ELSE <<FitCall(rebuilds[k])>>
    /\ unhandled' = << >>
    /\ RebuildStep(k)

\* createLayersFromGeoJson resolves without layers, or rejects (caught).
CreateFails(k) ==
    /\ k \in 1..Len(rebuilds)
    /\ rebuilds[k].pc = "create"
    /\ rebuilds' = RemoveAt(rebuilds, k)
    /\ issued' = << >>
    /\ unhandled' = << >>
    /\ RebuildStep(k)
    /\ UNCHANGED <<layers, customLayerIdRef>>

\* setLayerStyle resolves: calculateBounds is non-null, the viewport is fit.
StyleResolve(k) ==
    /\ k \in 1..Len(rebuilds)
    /\ rebuilds[k].pc = "style"
    /\ rebuilds' = [rebuilds EXCEPT ![k] =
            [@ EXCEPT !.pc = "fit", !.log = Append(@, "fitViewportToBounds")]]
    /\ issued' = <<FitCall(rebuilds[k])>>
    /\ unhandled' = << >>
    /\ RebuildStep(k)
    /\ UNCHANGED <<layers, customLayerIdRef>>

\* setLayerStyle rejects (caught), or fitViewportToBounds settles.
RebuildEnds(k) ==
    /\ k \in 1..Len(rebuilds)
    /\ rebuilds[k].pc \in {"style", "fit"}
    /\ rebuilds' = RemoveAt(rebuilds, k)
    /\ issued' = << >>
    /\ unhandled' = << >>
    /\ RebuildStep(k)
    /\ UNCHANGED <<layers, customLayerIdRef>>

\* ------------------------------------- map click handler (lines 288-436)
\* The features the remote map can report under the cursor: features of
\* layers it holds; a feature of a widget-built layer carries the pointIndex
\* it was built with.
PointIndexes(l) == IF l.n = 0 THEN {<< >>} ELSE {<<i>> : i \in 0..(l.n - 1)}

FeaturesOf(l) == {[layerId |-> l.id, pointIndex |-> pi] : pi \in PointIndexes(l)}

Features == UNION {FeaturesOf(l) : l \in layers}

\* event.features.find(f => customLayerIdRef.current && f.layerId === ...)
MatchedFeature(features, ref) ==
    LET own == {j \in 1..Len(features) : ref /= Null /\ features[j].layerId = ref[1]}
    IN  IF own = {} THEN << >> ELSE <<features[Min(own)]>>

\* The empty-space branch without its setSelectedPoint(null).
ClickOnEmptySpaceKeeps ==
    /\ UNCHANGED selectedPoint
    /\ notified' = ClearNotice

\* Lines 375-381: a click on empty space.
ClickOnEmptySpace ==
    /\ selectedPoint' = Null
    /\ notified' = ClearNotice

\* Lines 387-435, run once the feature lookups are over.  c holds what the
\* handler closed over when it was called: points and selectedPoint.
ClickTail(c) ==
    LET matchedFeature == MatchedFeature(c.features, customLayerIdRef)
        pointIndex == FindIndex(c.points, c.coordinate)
    IN  IF matchedFeature = << >> /\ pointIndex /= -1
        THEN IF c.selectedPoint = <<pointIndex>>
             THEN /\ selectedPoint' = Null
                  /\ notified' = ClearNotice
             ELSE /\ selectedPoint' = <<pointIndex>>
                  /\ notified' = SelectNotice(c.points[pointIndex + 1])
        ELSE /\ selectedPoint' = Null
             /\ notified' = ClearNotice

\* The map delivers a click to a registered handler.  With an empty hit
\* list the handler runs to its end; otherwise it stops at the await of
\* getGeoJsonFeature for the first feature.
MapClick(features, coordinate) ==
    /\ \E h \in 1..Len(handlers) :
       LET c == [features |-> features, coordinate |-> coordinate,
                 points |-> handlers[h].points,
                 selectedPoint |-> handlers[h].selectedPoint, at |-> 1]
       IN  /\ last' = Event("mapClick", << >>, c)
           /\ IF features = << >>
              THEN /\ ClickOnEmptySpace
                   /\ issued' = << >>
                   /\ UNCHANGED clicks
              ELSE /\ Len(clicks) < MaxClicks
                   /\ clicks' = Append(clicks, c)
                   /\ issued' = <<Call("getGeoJsonFeature", 0, <<features[1].layerId>>)>>
                   /\ notified' = << >>
                   /\ UNCHANGED selectedPoint
    /\ unhandled' = << >>
    /\ UNCHANGED <<props, embedVars, remoteVars>>
    /\ Committed

\* A getGeoJsonFeature promise settles (its result is only logged, its
\* rejection caught): the loop asks for the next feature, or the handler
\* runs to its end.
FeatureSettles(k) ==
    /\ k \in 1..Len(clicks)
    /\ IF clicks[k].at < Len(clicks[k].features)
       THEN /\ clicks' = [clicks EXCEPT ![k].at = @ + 1]
            /\ issued' = <<Call("getGeoJsonFeature", 0,
                                <<clicks[k].features[clicks[k].at + 1].layerId>>)>>
            /\ last' = Other
            /\ notified' = << >>
            /\ UNCHANGED selectedPoint
       ELSE /\ clicks' = RemoveAt(clicks, k)
            /\ issued' = << >>
            /\ last' = Event("mapClickDone", << >>, clicks[k])
            /\ ClickTail(clicks[k])
    /\ unhandled' = << >>
    /\ UNCHANGED <<props, embedVars, remoteVars>>
    /\ Committed

\* ---------------------------------------------------------- specification
EmbedSteps ==
    \/ Mount
    \/ EmbedResolve
    \/ EmbedReject

SidebarSteps ==
    \/ \E index \in 0..(MaxPoints - 1) : SidebarClick(index)
    \/ ClearSelection
    \/ SetViewportReject

ChainSteps ==
    \/ \E k \in 1..Len(rebuilds) : GetLayersResolve(k)
    \/ \E k \in 1..Len(rebuilds) : GetLayersReject(k)
    \/ \E k \in 1..Len(rebuilds) : \E id \in rebuilds[k].pending : DeleteLayerResolve(k, id)
    \/ \E k \in 1..Len(rebuilds) : \E id \in rebuilds[k].pending : DeleteLayerReject(k, id)
    \/ \E k \in 1..Len(rebuilds) : CreateResolve(k)
    \/ \E k \in 1..Len(rebuilds) : CreateFails(k)
    \/ \E k \in 1..Len(rebuilds) : StyleResolve(k)
    \/ \E k \in 1..Len(rebuilds) : RebuildEnds(k)

MapSteps ==
    \/ \E features \in SeqsUpTo(Features, MaxHits), coordinate \in ClickCoordinates :
            MapClick(features, coordinate)
    \/ \E k \in 1..Len(clicks) : FeatureSettles(k)

\* The component in an arbitrary environment.
AppSteps ==
    \/ \E lat \in Cells, lng \in Cells : SigmaAppendRow(lat, lng)
    \/ SigmaReset

Next ==
    \/ /\ ~unmounted
       /\ \/ EmbedSteps
          \/ \E m \in MapIds : ChangeMapId(m)
          \/ ChangeDisplayProps
          \/ \E pts \in PointSets : ReplacePoints(pts)
          \/ SidebarSteps
          \/ ChainSteps
          \/ MapSteps
    \/ Unmount
    \/ AppSteps

Spec == Init /\ [][Next]_vars

\* The component with a host that changes its props at any time and a user
\* who works the sidebar but does not click the map; both callbacks passed.
InitHost ==
    /\ Init
    /\ onPointSelected
    /\ onClearSelection
    /\ columnLookup = NoLookup

NextHost ==
    \/ EmbedSteps
    \/ \E m \in MapIds : ChangeMapId(m)
    \/ ChangeDisplayProps
    \/ \E pts \in PointSets : ReplacePoints(pts)
    \/ SidebarSteps
    \/ ChainSteps

SpecHost == InitHost /\ [][NextHost]_vars

\* The component with a user who clicks the map and the sidebar at any time
\* and a host that keeps the mapId and changes the other props only while no
\* rebuild chain is in flight; the host passes both callbacks or none, and
\* the remote map holds both foreign layers.
InitClick ==
    /\ Init
    /\ mapId = "m1"
    /\ onPointSelected = onClearSelection
    /\ layers = PreExisting
    /\ columnLookup = NoLookup

NextClick ==
    \/ EmbedSteps
    \/ rebuilds = << >> /\ ChangeDisplayProps
    \/ rebuilds = << >> /\ \E pts \in PointSets : ReplacePoints(pts)
    \/ SidebarSteps
    \/ ChainSteps
    \/ MapSteps

SpecClick == InitClick /\ [][NextClick]_vars

\* The component of SpecClick with both callbacks, until the host unmounts
\* it.
InitSession ==
    /\ InitClick
    /\ onPointSelected

NextSession ==
    \/ ~unmounted /\ NextClick
    \/ Unmount

SpecSession == InitSession /\ [][NextSession]_vars

\* The component with a host that changes its props at any time and a
\* remote map on which every call resolves.
InitCalm ==
    /\ InitHost
    /\ mapId = "m1"

NextCalm ==
    \/ Mount
    \/ EmbedResolve
    \/ ChangeDisplayProps
    \/ \E pts \in PointSets : ReplacePoints(pts)
    \/ \E k \in 1..Len(rebuilds) : GetLayersResolve(k)
    \/ \E k \in 1..Len(rebuilds) : \E id \in rebuilds[k].pending : DeleteLayerResolve(k, id)
    \/ \E k \in 1..Len(rebuilds) : CreateResolve(k)
    \/ \E k \in 1..Len(rebuilds) : StyleResolve(k)
    \/ \E k \in 1..Len(rebuilds) : rebuilds[k].pc = "fit" /\ RebuildEnds(k)

SpecCalm == InitCalm /\ [][NextCalm]_vars

\* The component of SpecCalm on a remote map whose calls resolve or reject,
\* each of them eventually.
NextLive ==
    \/ Mount
    \/ EmbedResolve
    \/ ChangeDisplayProps
    \/ \E pts \in PointSets : ReplacePoints(pts)
    \/ ChainSteps

SpecLive == InitCalm /\ [][NextLive]_vars /\ WF_vars(ChainSteps)

\* One rebuild of the layer, for a family of point sets and column lookups:
\* the host mounts the component and changes nothing; every call resolves.
InitStyle ==
    /\ mapId = "m1"
    /\ points \in StylePointSets
    /\ onPointSelected = FALSE
    /\ onClearSelection = FALSE
    /\ columnLookup \in ColumnLookups
    /\ layers = {[id |-> "base", marked |-> FALSE, n |-> 0]}
    /\ Constructed

NextStyle ==
    \/ Mount
    \/ EmbedResolve
    \/ \E k \in 1..Len(rebuilds) : GetLayersResolve(k)
    \/ \E k \in 1..Len(rebuilds) : CreateResolve(k)
    \/ \E k \in 1..Len(rebuilds) : StyleResolve(k)
    \/ \E k \in 1..Len(rebuilds) : RebuildEnds(k)

SpecStyle == InitStyle /\ [][NextStyle]_vars

\* The App alone: the host delivers its table row by row; the component's
\* variables stay as constructed (App passes no callbacks).
InitApp ==
    /\ mapId = "m1"
    /\ points = << >>
    /\ onPointSelected = FALSE
    /\ onClearSelection = FALSE
    /\ columnLookup = NoLookup
    /\ layers = {}
    /\ Constructed

SpecApp == InitApp /\ [][AppSteps]_vars

\* ================================================================ claims
\* Vocabulary of the claims, stated apart from the operators of the model.
Count(seq, name) == Cardinality({j \in 1..Len(seq) : seq[j].cb = name})

Within(point, coordinate) ==
    /\ point.latitude - coordinate.latitude \in (1 - PROXIMITY_THRESHOLD)..(PROXIMITY_THRESHOLD - 1)
    /\ point.longitude - coordinate.longitude \in (1 - PROXIMITY_THRESHOLD)..(PROXIMITY_THRESHOLD - 1)

\* 0-based indexes of the points of pts within the threshold of coordinate.
Matches(pts, coordinate) == {k - 1 : k \in {j \in 1..Len(pts) : Within(pts[j], coordinate)}}

\* Positions of the hit list whose feature belongs to the widget's own layer.
OwnHits(features) ==
    {j \in 1..Len(features) :
        customLayerIdRef /= Null /\ features[j].layerId = customLayerIdRef[1]}

\* Own-layer hits that carry a pointIndex valid for the current point set.
ValidOwnHits(features) ==
    {j \in OwnHits(features) :
        /\ features[j].pointIndex /= << >>
        /\ features[j].pointIndex[1] < Len(points)}

MapClickDone == last.op = "mapClickDone"

SidebarClicked == last.op = "sidebarClick" /\ felt /= Null

ClearedOnce ==
    /\ selectedPoint = Null
    /\ Count(notified, "onClearSelection") = (IF onClearSelection THEN 1 ELSE 0)
    /\ Count(notified, "onPointSelected") = 0

SelectedOnce(index, point) ==
    /\ selectedPoint = <<index>>
    /\ Count(notified, "onClearSelection") = 0
    /\ notified = (IF onPointSelected
                   THEN <<[cb |-> "onPointSelected", arg |-> <<point>>]>>
                   ELSE << >>)

\* C1: after a map click whose hit list holds a feature of the widget's own
\* layer with a pointIndex k valid for the current points, the selection is
\* the k of the first such feature, whatever it was before.
C1_OwnedFeatureSelects ==
    (MapClickDone /\ ValidOwnHits(last.click.features) /= {}) =>
        selectedPoint =
            last.click.features[Min(ValidOwnHits(last.click.features))].pointIndex

\* C2: with the controller ready, a sidebar click on i from no selection
\* directly followed by a sidebar click on i leaves no selection, and a
\* sidebar click on i directly followed by one on another index j leaves j
\* selected, whatever the selection was before the two clicks.
C2_SidebarToggle ==
    (SidebarClicked /\ last.prev /= << >>) =>
        /\ (last.prev[1].idx = last.idx /\ last.prev[1].pre = Null) => selectedPoint = Null
        /\ last.prev[1].idx /= last.idx => selectedPoint = last.idx

C2_Witness ==
    /\ SidebarClicked
    /\ last.prev /= << >>
    /\ last.prev[1].idx = last.idx
    /\ last.prev[1].pre = Null
    /\ selectedPoint = Null

\* C3: a sidebar click on index i with the controller ready: on the selected
\* index it clears the selection, invokes the clear callback once and issues
\* no remote call; on another index it selects i, invokes the point-selected
\* callback once with record i and issues one setViewport centred on that
\* record at zoom 12.
C3_SidebarClick ==
    SidebarClicked =>
        IF last.pre = last.idx
        THEN ClearedOnce /\ issued = << >>
        ELSE /\ SelectedOnce(last.idx[1], points[last.idx[1] + 1])
             /\ issued = <<[call |-> "setViewport", rb |-> 0,
                            arg |-> <<points[last.idx[1] + 1].latitude,
                                      points[last.idx[1] + 1].longitude, 12>>]>>

C3_Witness ==
    /\ SidebarClicked
    /\ last.pre = <<0>>
    /\ last.idx = <<1>>
    /\ onPointSelected
    /\ Len(issued) = 1

\* C4 (as claimed): after a map click with a non-empty hit list without a
\* feature of the own layer and with a point within the threshold on both
\* axes, the selection is the lowest index of such a point, for every prior
\* selection.  Stated for a click during which points and selection did not
\* change.
C4_FirstMatchAlways ==
    (/\ MapClickDone
     /\ OwnHits(last.click.features) = {}
     /\ last.click.points = points
     /\ last.click.selectedPoint = last.pre
     /\ Matches(points, last.click.coordinate) /= {}) =>
        selectedPoint = <<Min(Matches(points, last.click.coordinate))>>

\* C4 (amended): ... the selection is the lowest index of such a point of
\* the point set the handler closed over, unless that index was the
\* selection the handler closed over: then the selection is cleared.
C4_FirstMatchToggles ==
    (/\ MapClickDone
     /\ OwnHits(last.click.features) = {}
     /\ Matches(last.click.points, last.click.coordinate) /= {}) =>
        LET first == Min(Matches(last.click.points, last.click.coordinate))
        IN  IF last.click.selectedPoint = <<first>>
            THEN ClearedOnce
            ELSE SelectedOnce(first, last.click.points[first + 1])

\* Point 1 is on the click, point 0 only near it: point 0 is selected.
C4_Witness ==
    /\ MapClickDone
    /\ OwnHits(last.click.features) = {}
    /\ Len(last.click.points) = 2
    /\ last.click.coordinate.latitude = last.click.points[2].latitude
    /\ last.click.coordinate.longitude = last.click.points[2].longitude
    /\ last.click.coordinate.latitude /= last.click.points[1].latitude
    /\ selectedPoint = <<0>>

\* C5: a map click with an empty hit list, or with hits none of which is of
\* the own layer and no point within the threshold, clears the selection,
\* invokes the clear callback once and the point-selected callback not at
\* all, whatever the prior selection.
C5_EmptySpaceClears ==
    /\ (last.op = "mapClick" /\ last.click.features = << >>) => ClearedOnce
    /\ (/\ MapClickDone
        /\ OwnHits(last.click.features) = {}
        /\ Matches(last.click.points, last.click.coordinate) = {}) => ClearedOnce

C5_Witness ==
    /\ last.op = "mapClick"
    /\ last.click.features = << >>
    /\ last.pre = <<1>>
    /\ onClearSelection
    /\ selectedPoint = Null

\* C6: the selection is none or an index below the length of the current
\* point array.
C6_SelectionInRange ==
    selectedPoint = Null \/ selectedPoint[1] < Len(points)

\* C7: the calls of one rebuild are issued in the order getLayers, one
\* deleteLayer per layer with the marker, createLayersFromGeoJson only once
\* none of those deletes is pending, setLayerStyle iff the points give a
\* dynamic style, fitViewportToBounds.
HasDynamicStyle(pts) ==
    \/ \E k \in 1..Len(pts) : pts[k].color \notin {<< >>, <<"">>}
    \/ \E j, k \in 1..Len(pts) :
            pts[j].size /= << >> /\ pts[k].size /= << >> /\ pts[j].size /= pts[k].size

CallOrder(pts) ==
    <<"createLayersFromGeoJson">>
        \o (IF HasDynamicStyle(pts) THEN <<"setLayerStyle">> ELSE << >>)
        \o <<"fitViewportToBounds">>

IsPrefix(a, b) == Len(a) <= Len(b) /\ a = SubSeq(b, 1, Len(a))

MarkedIds == {l.id : l \in {x \in layers : x.marked}}

DeletesIssued == {issued[j].arg[1].id : j \in {i \in 1..Len(issued) : issued[i].call = "deleteLayer"}}

C7_RebuildOrder ==
    /\ \A k \in 1..Len(rebuilds) :
        LET r == rebuilds[k]
            d == Cardinality(r.targets)
        IN  /\ Len(r.log) >= 1 + d
            /\ r.log[1] = "getLayers"
            /\ \A j \in 2..(1 + d) : r.log[j] = "deleteLayer"
            /\ IsPrefix(SubSeq(r.log, 2 + d, Len(r.log)), CallOrder(r.points))
            /\ Len(r.log) > 1 + d => r.pending = {}
    /\ DeletesIssued /= {} => DeletesIssued = MarkedIds
    /\ \A j \in 1..Len(issued) :
        (issued[j].call = "createLayersFromGeoJson" /\ MarkedIds /= {}) =>
            \E k \in 1..Len(rebuilds) :
                rebuilds[k].n = issued[j].rb /\ rebuilds[k].targets /= {}

C7_Witness ==
    \E k \in 1..Len(rebuilds) :
        /\ rebuilds[k].log = <<"getLayers", "deleteLayer", "createLayersFromGeoJson",
                               "setLayerStyle", "fitViewportToBounds">>
        /\ rebuilds[k].n = 2

\* C8 (as claimed): a layer operation is issued only while the session is
\* Ready and the current point set is non-empty.
LayerOps == {"getLayers", "deleteLayer", "createLayersFromGeoJson", "setLayerStyle",
             "fitViewportToBounds"}

LayerOpsIssued == {j \in 1..Len(issued) : issued[j].call \in LayerOps}

C8_LayerOpsOnlyWithPoints ==
    LayerOpsIssued /= {} => felt /= Null /\ Len(points) > 0

\* C8 (amended): a layer operation is issued only while the session is
\* Ready, by a rebuild that was started with a non-empty point set; getLayers,
\* which starts a rebuild, only while the current point set is non-empty.
C8_LayerOpsOnlyReady ==
    /\ rebuilds /= << >> => felt /= Null
    /\ \A j \in LayerOpsIssued :
        /\ felt /= Null
        /\ issued[j].call = "getLayers" => Len(points) > 0
        /\ \E k \in 1..Len(rebuilds) :
                rebuilds[k].n = issued[j].rb /\ Len(rebuilds[k].points) > 0

\* A delete or create goes out while the current point set is empty.
C8_Witness ==
    /\ LayerOpsIssued /= {}
    /\ points = << >>

\* C9: once the embed has rejected the loading flag is cleared, the
\* controller stays absent and no second embed is made, and a sidebar click
\* changes no selection, fires no callback and issues no remote call.
Failed == hasLoadedRef /\ ~embedPending /\ felt = Null

C9_Failed ==
    /\ [](Failed =>
            /\ ~isLoading
            /\ Len(embeds) = 1
            /\ rebuilds = << >>
            /\ issued = << >>
            /\ last.op = "sidebarClick" => (selectedPoint = last.pre /\ notified = << >>))
    /\ [][Failed => (Failed' /\ embeds' = embeds)]_vars

C9_Witness ==
    /\ Failed
    /\ last.op = "sidebarClick"
    /\ Len(points) > 0

\* C10: the embed session in use is one for the current map target: a change
\* of mapId after the first embed starts an embed for the new mapId.
C10_EmbedFollowsMapId ==
    hasLoadedRef => embeds[Len(embeds)] = mapId

\* C11: no rejection of a remote call of the widget is left unhandled.
C11_RejectionsCaught ==
    unhandled = << >>

\* C12: the point records are the rows whose latitude and longitude are
\* both finite numbers, in row order: one record per such row, none for any
\* other row.
IsFinite(x) == x.type = "number" /\ x.value \notin {"NaN", "Infinity", "-Infinity"}

FiniteRows(lat, lng) ==
    LET Keep(r) == IsFinite(lat[r]) /\ IsFinite(lng[r])
    IN  SelectSeq([r \in 1..Len(lat) |-> r], Keep)

C12_FiniteRowsOnly ==
    sigmaData /= Null =>
        LET lat == sigmaData[1].lat
            lng == sigmaData[1].lng
            kept == FiniteRows(lat, lng)
        IN  /\ Len(mapPoints) <= Len(lat)
            /\ mapPoints = [j \in 1..Len(kept) |->
                    [latitude |-> lat[kept[j]], longitude |-> lng[kept[j]]]]

\* The calls of one kind issued by the last step, and the points of the
\* rebuild that issued a call.
IssuedCalls(name) == {j \in 1..Len(issued) : issued[j].call = name}

PointsOf(j) ==
    (CHOOSE r \in Range(rebuilds) : r.n = issued[j].rb).points

\* C13: the box passed to fitViewportToBounds is [minLng - 0.1, minLat - 0.1,
\* maxLng + 0.1, maxLat + 0.1] over all points of the rebuild (0.1 degrees
\* are 2000 units); calculateBounds of the empty set is null.
C13_BoundsPadded ==
    /\ CalculateBounds(<< >>) = << >>
    /\ \A j \in IssuedCalls("fitViewportToBounds") :
        LET pts == PointsOf(j)
            box == issued[j].arg[1].bounds
            at == 1..Len(pts)
        IN  /\ Len(box) = 4
            /\ \A k \in at : /\ box[1] + 2000 <= pts[k].longitude
                             /\ box[2] + 2000 <= pts[k].latitude
                             /\ box[3] - 2000 >= pts[k].longitude
                             /\ box[4] - 2000 >= pts[k].latitude
            /\ \E k \in at : box[1] + 2000 = pts[k].longitude
            /\ \E k \in at : box[2] + 2000 = pts[k].latitude
            /\ \E k \in at : box[3] - 2000 = pts[k].longitude
            /\ \E k \in at : box[4] - 2000 = pts[k].latitude

\* A box over at least three points that is wider and higher than its
\* padding.
C13_Witness ==
    \E j \in IssuedCalls("fitViewportToBounds") :
        /\ Len(PointsOf(j)) >= 3
        /\ issued[j].arg[1].bounds[3] - issued[j].arg[1].bounds[1] > 4000
        /\ issued[j].arg[1].bounds[4] - issued[j].arg[1].bounds[2] > 4000

\* The color a style gives to the features of one category: the color of
\* its case of the match expression, else the default; without a match
\* expression the color the layer was created with.
ColorGiven(style, category) ==
    IF style.color = << >>
    THEN COLOR_PALETTE[1]
    ELSE LET cases == style.color[1].cases
             hit == {i \in 1..Len(cases) : cases[i].category = category}
         IN  IF hit = {} THEN style.color[1].default
             ELSE cases[CHOOSE i \in hit : TRUE].color

\* The positions at which a color value that counts appears for the first
\* time, and the number of such positions before position k.
FirstAt(pts, counted) ==
    {k \in 1..Len(pts) : /\ pts[k].color \in counted
                         /\ \A j \in 1..(k - 1) : pts[j].color /= pts[k].color}

RankOf(pts, counted, k) == Cardinality({j \in FirstAt(pts, counted) : j < k})

ColorValues(pts) == {pts[k].color : k \in 1..Len(pts)} \ {<< >>}

PaletteAssigned(pts, style, counted) ==
    /\ \A k \in FirstAt(pts, counted) :
            ColorGiven(style, pts[k].color[1])
                = COLOR_PALETTE[(RankOf(pts, counted, k) % 10) + 1]
    /\ style.color /= << >> => style.color[1].default = COLOR_PALETTE[1]

\* C14 (as claimed): the style passed to setLayerStyle gives the k-th
\* distinct color value of the points, in order of first appearance, palette
\* entry k mod 10, and its default is palette entry 0.
C14_PaletteByFirstAppearance ==
    \A j \in IssuedCalls("setLayerStyle") :
        PaletteAssigned(PointsOf(j), issued[j].arg[1].style, ColorValues(PointsOf(j)))

\* C14 (amended): ... the k-th distinct non-empty color value ...; the
\* empty string counts as no color: it takes no palette entry and gets no
\* case of its own.
C14_PaletteByFirstNonEmpty ==
    \A j \in IssuedCalls("setLayerStyle") :
        LET pts == PointsOf(j)
            style == issued[j].arg[1].style
        IN  /\ PaletteAssigned(pts, style, ColorValues(pts) \ {<<"">>})
            /\ style.color /= << >> =>
                    \A i \in 1..Len(style.color[1].cases) :
                        style.color[1].cases[i].category /= ""

\* Eleven distinct colors: the eleventh gets palette entry 0 again.
C14_Witness ==
    \E j \in IssuedCalls("setLayerStyle") :
        /\ Cardinality(ColorValues(PointsOf(j))) = 11
        /\ ColorGiven(issued[j].arg[1].style, PointsOf(j)[11].color[1]) = "#4c78a8"
        /\ ColorGiven(issued[j].arg[1].style, PointsOf(j)[10].color[1]) = "#bab0ac"

\* C15: the layer is created with radius 6; the style passed to
\* setLayerStyle has no size interpolation when the points have no size or
\* equal sizes, and otherwise linear stops from the least size at 4 to the
\* greatest at 12; a point set without colors gets no setLayerStyle at all
\* unless its sizes differ.
DefinedSizes(pts) == {pts[k].size[1] : k \in {i \in 1..Len(pts) : pts[i].size /= << >>}}

C15_SizeInterpolation ==
    /\ \A j \in IssuedCalls("createLayersFromGeoJson") : issued[j].arg[1].style.size = 6
    /\ \A j \in IssuedCalls("setLayerStyle") :
        LET sizes == DefinedSizes(PointsOf(j))
            size == issued[j].arg[1].style.size
        IN  IF Cardinality(sizes) <= 1
            THEN size = << >>
            ELSE /\ size /= << >>
                 /\ size[1].stops[2] = 4
                 /\ size[1].stops[4] = 12
                 /\ size[1].stops[1] \in sizes
                 /\ size[1].stops[3] \in sizes
                 /\ \A x \in sizes : size[1].stops[1] <= x /\ x <= size[1].stops[3]
    /\ \A k \in 1..Len(rebuilds) :
        (/\ rebuilds[k].pc = "style"
         /\ \A i \in 1..Len(rebuilds[k].points) :
                rebuilds[k].points[i].color \in {<< >>, <<"">>}) =>
            Cardinality(DefinedSizes(rebuilds[k].points)) > 1

\* Sizes that differ, some points without a size.
C15_Witness ==
    \E j \in IssuedCalls("setLayerStyle") :
        /\ issued[j].arg[1].style.size /= << >>
        /\ issued[j].arg[1].style.size[1].stops[1] < issued[j].arg[1].style.size[1].stops[3]
        /\ \E i \in 1..Len(PointsOf(j)) : PointsOf(j)[i].size = << >>
        /\ Cardinality(DefinedSizes(PointsOf(j))) >= 3

\* C16: the feature built for the record at index i has the coordinates
\* [longitude_i, latitude_i], the number i as pointIndex, a category iff the
\* record has a color and a size iff it has a size, whatever tooltip fields
\* and column labels there are.
C16_FeatureProperties ==
    \A j \in IssuedCalls("createLayersFromGeoJson") :
        LET pts == PointsOf(j)
            features == issued[j].arg[1].features
        IN  /\ Len(features) = Len(pts)
            /\ \A k \in 1..Len(pts) :
                LET properties == features[k].properties
                IN  /\ features[k].geometry = <<pts[k].longitude, pts[k].latitude>>
                    /\ properties["pointIndex"] = [type |-> "number", value |-> ToString(k - 1)]
                    /\ "category" \in DOMAIN properties <=> pts[k].color /= << >>
                    /\ "size" \in DOMAIN properties <=> pts[k].size /= << >>

\* C17: at most one rebuild sequence is in flight.
C17_OneRebuildAtATime ==
    Cardinality({k \in 1..Len(rebuilds) : rebuilds[k].pc /= "dead"}) <= 1

\* C18: when no rebuild is in flight any more, at least one was started and
\* every remote call has resolved, the remote map holds exactly one layer
\* created by the widget.
OwnedLayers == {l \in layers : l.n > 0}

C18_SingleOwnedLayer ==
    (rebuilds = << >> /\ nRebuilds > 0) => Cardinality(OwnedLayers) = 1

\* C19: at most one click handler of the widget is registered on the
\* controller at any time, none before there is a controller and none after
\* the unmount.
C19_OneRegistration ==
    /\ Len(handlers) <= 1
    /\ felt = Null => handlers = << >>
    /\ unmounted => handlers = << >>
    /\ (felt /= Null /\ ~unmounted) =>
            handlers = <<[points |-> points, selectedPoint |-> selectedPoint]>>

\* The registration was remade after a selection and released by the
\* unmount.
C19_Witness ==
    /\ unmounted
    /\ felt /= Null
    /\ selectedPoint /= Null
    /\ handlers = << >>

\* C20: while a map click is being handled no other handler runs and the
\* points and the selection stay what they were when it was delivered.
C20_ClickRunsToCompletion ==
    clicks /= << >> =>
        /\ last.op \notin {"sidebarClick", "clearSelection"}
        /\ \A k \in 1..Len(clicks) :
            /\ clicks[k].points = points
            /\ clicks[k].selectedPoint = selectedPoint

\* C21: the swatch of every sidebar row that has one shows the color the
\* style passed to setLayerStyle gives to the row's category.
C21_SwatchMatchesStyle ==
    \A j \in IssuedCalls("setLayerStyle") :
        PointsOf(j) = points =>
            \A k \in 1..Len(points) :
                swatches[k] /= << >> =>
                    swatches[k][1] = ColorGiven(issued[j].arg[1].style, points[k].color[1])

\* C22: a map click handler that finishes decides on the selection that is
\* current when it finishes: no later event has changed the selection since
\* the click was delivered.
C22_HandlerSeesCurrentState ==
    MapClickDone => last.click.selectedPoint = last.pre

\* C23: no deleteLayer call targets a layer that was on the remote map
\* before the widget's first rebuild.
C23_DeletesOnlyOwnLayers ==
    \A j \in IssuedCalls("deleteLayer") :
        issued[j].arg[1].id \notin {l.id : l \in PreExisting}

\* C24: if every remote call settles, every rebuild that was started issues
\* createLayersFromGeoJson.
Started(n) == \E k \in 1..Len(rebuilds) : rebuilds[k].n = n

Creating(n) ==
    \E k \in 1..Len(rebuilds) :
        /\ rebuilds[k].n = n
        /\ \E i \in 1..Len(rebuilds[k].log) : rebuilds[k].log[i] = "createLayersFromGeoJson"

C24_RebuildCreates ==
    \A n \in 1..MaxRebuilds : Started(n) ~> Creating(n)

\* C25: with no rebuild in flight, the stored layer id names a layer that
\* is on the remote map.
C25_StoredLayerExists ==
    (rebuilds = << >> /\ customLayerIdRef /= Null) =>
        \E l \in layers : l.id = customLayerIdRef[1]

====
